---- MODULE Spec2Model ----
(***************************************************************************)
(* Stegano: LSB steganography page (src/src/app/page.tsx) together with    *)
(* the guards of the encode and decode forms that call it.                 *)
(*                                                                         *)
(* JavaScript strings are sequences of UTF-16 code units, binary strings   *)
(* are sequences over {0,1}, ImageData.data is a sequence of bytes whose   *)
(* element k+1 is data[k].  A nullable value is <<>> (null) or <<v>>.      *)
(* The PNG written by canvas.toDataURL and read back by drawImage /        *)
(* getImageData is taken to return the bytes that putImageData stored      *)
(* (the lossless collaborator of spec section 6).                          *)
(***************************************************************************)
EXTENDS Integers, Sequences, FiniteSets, TLC

VARIABLES tab, isLoading, encodedImageResult, decodedMessage, error,
          toast, op, canvas, downloaded, form, urlForm

vars == <<tab, isLoading, encodedImageResult, decodedMessage, error,
          toast, op, canvas, downloaded, form, urlForm>>

None == <<>>

Some(v) == <<v>>

\* ------------------------------------------------------------------ bounds
MaxMsgLen == 2

\* ------------------------------------------------------- program constants
BITS_FOR_LENGTH == 32

MAX_MESSAGE_LENGTH == 1000

\* ------------------------------------------------------ string primitives
\* Number.prototype.toString(2) of a non-negative integer
RECURSIVE ToBinaryString(_)
ToBinaryString(n) ==
  IF n < 2 THEN <<n>> ELSE Append(ToBinaryString(n \div 2), n % 2)

\* '0'.repeat(count) for count >= 0
Repeat0(count) == [k \in 1..count |-> 0]

\* variant: the padding is one '0' short
PadStart_short(s, targetLength) ==
  IF Len(s) >= targetLength - 1 THEN s
  ELSE Repeat0(targetLength - 1 - Len(s)) \o s

\* String.prototype.padStart(targetLength, '0'): a string already at least
\* targetLength long is returned as it is
PadStart(s, targetLength) ==
  IF Len(s) >= targetLength THEN s ELSE Repeat0(targetLength - Len(s)) \o s

\* parseInt(s, 2) of a string of binary digits; the empty string gives NaN,
\* which no caller in this model produces
RECURSIVE ParseInt2(_)
ParseInt2(s) ==
  IF Len(s) = 0 THEN 0
  ELSE 2 * ParseInt2(SubSeq(s, 1, Len(s) - 1)) + s[Len(s)]

\* String.prototype.trim() leaves nothing: only white space (code 32 is the
\* one white-space code unit of the alphabet used here)
IsBlank(text) == \A k \in 1..Len(text) : text[k] = 32

\* ------------------------------------------------------------ the codec
\* textToBinary: per character, toString(2) left-padded by '0'.repeat(8 - n).
\* String.prototype.repeat throws RangeError on a negative count, which is
\* what happens for a character code above 255 (9 or more binary digits).
RECURSIVE textToBinary(_)
textToBinary(text) ==
  IF Len(text) = 0 THEN [threw |-> FALSE, bits |-> <<>>]
  ELSE LET binary == ToBinaryString(text[1])
           rest   == textToBinary(Tail(text))
       IN  IF 8 - Len(binary) < 0 \/ rest.threw
           THEN [threw |-> TRUE, bits |-> <<>>]
           ELSE [threw |-> FALSE,
                 bits  |-> Repeat0(8 - Len(binary)) \o binary \o rest.bits]

\* binaryToText: substring(i, i+8) clips at the end of the string, so a
\* trailing group shorter than 8 bits is parsed and turned into a character
RECURSIVE binaryToText(_)
binaryToText(binary) ==
  IF Len(binary) = 0 THEN <<>>
  ELSE LET n    == IF Len(binary) < 8 THEN Len(binary) ELSE 8
           byte == SubSeq(binary, 1, n)
       IN  <<ParseInt2(byte)>> \o binaryToText(SubSeq(binary, n + 1, Len(binary)))

\* variant: the header holds the number of characters, not of bits
fullBinaryPayload_chars(binaryMessage) ==
  PadStart(ToBinaryString(Len(binaryMessage) \div 8), BITS_FOR_LENGTH)
    \o binaryMessage

\* messageLengthBinary + binaryMessage
fullBinaryPayload(binaryMessage) ==
  PadStart(ToBinaryString(Len(binaryMessage)), BITS_FOR_LENGTH) \o binaryMessage

maxCapacityBits(width, height) == width * height * 3

\* variant: val & ~3
ClearLSB_two(val) == val - (val % 4)

\* val & ~1
ClearLSB(val) == val - (val % 2)

\* variant: the bit is cleared and never set
EmbedChannel_stuck(val, bit) == ClearLSB(val)

\* the channel value stored by one pass of the inner embed loop
EmbedChannel(val, bit) == IF bit = 1 THEN ClearLSB(val) + 1 ELSE ClearLSB(val)

\* variant: the inner embed loop also visits the alpha channel
EmbedsChannel_alpha(j) == j < 4

\* the channels of a pixel visited by the inner embed loop: R, G, B
EmbedsChannel(j) == j < 3

\* The embed loops of handleEncode.  EmbedOuter is the test of the outer
\* for at pixel offset i, EmbedInner the inner for at channel j.
RECURSIVE EmbedOuter(_, _, _, _), EmbedInner(_, _, _, _, _)
EmbedOuter(data, payload, i, bitIndex) ==
  IF i < Len(data) /\ bitIndex < Len(payload)
  THEN EmbedInner(data, payload, i, 0, bitIndex)
  ELSE data

EmbedInner(data, payload, i, j, bitIndex) ==
  IF EmbedsChannel(j) /\ bitIndex < Len(payload)
  THEN EmbedInner([data EXCEPT ![i + j + 1] =
                      EmbedChannel(data[i + j + 1], payload[bitIndex + 1])],
                  payload, i, j + 1, bitIndex + 1)
  ELSE EmbedOuter(data, payload, i + 4, bitIndex)

\* variant: inside every pixel the bits of G and B are exchanged
EmbedLoop_swap(data, payload) ==
  LET e == EmbedOuter(data, payload, 0, 0)
  IN  [k \in 1..Len(e) |->
         IF k % 4 = 2 THEN ClearLSB(e[k]) + (e[k + 1] % 2)
         ELSE IF k % 4 = 3 THEN ClearLSB(e[k]) + (e[k - 1] % 2)
         ELSE e[k]]

\* variant: bitIndex is not reset once a picture has been downloaded
EmbedLoop_carry(data, payload) ==
  EmbedOuter(data, payload, 0, IF downloaded = None THEN 0 ELSE 1)

\* variant: without the bitIndex tests the loops run to the end of the
\* picture, and a missing payload character is not '1'
EmbedLoop_all(data, payload) ==
  EmbedOuter(data, payload \o Repeat0(Len(data)), 0, 0)

EmbedLoop(data, payload) == EmbedOuter(data, payload, 0, 0)

\* The header loops of handleDecode: binaryLength after the loops
RECURSIVE HeaderOuter(_, _, _), HeaderInner(_, _, _, _)
HeaderOuter(data, binaryLength, i) ==
  IF i < Len(data) /\ Len(binaryLength) < BITS_FOR_LENGTH
  THEN HeaderInner(data, binaryLength, i, 0)
  ELSE binaryLength

HeaderInner(data, binaryLength, i, j) ==
  IF j < 3 /\ Len(binaryLength) < BITS_FOR_LENGTH
  THEN HeaderInner(data, Append(binaryLength, data[i + j + 1] % 2), i, j + 1)
  ELSE HeaderOuter(data, binaryLength, i + 4)

HeaderLoop(data) == HeaderOuter(data, <<>>, 0)

\* The payload loops of handleDecode: binaryMessage after the loops.  The
\* traversal restarts at pixel 0 and skips the first BITS_FOR_LENGTH channels.
RECURSIVE PayloadOuter(_, _, _, _, _), PayloadInner(_, _, _, _, _, _)
PayloadOuter(data, messageLength, binaryMessage, i, overallBitIndex) ==
  IF i < Len(data) /\ Len(binaryMessage) < messageLength
  THEN PayloadInner(data, messageLength, binaryMessage, i, 0, overallBitIndex)
  ELSE binaryMessage

PayloadInner(data, messageLength, binaryMessage, i, j, overallBitIndex) ==
  IF j < 3 /\ Len(binaryMessage) < messageLength
  THEN PayloadInner(data, messageLength,
                    IF overallBitIndex >= BITS_FOR_LENGTH
                    THEN Append(binaryMessage, data[i + j + 1] % 2)
                    ELSE binaryMessage,
                    i, j + 1, overallBitIndex + 1)
  ELSE PayloadOuter(data, messageLength, binaryMessage, i + 4, overallBitIndex)

\* variant: overallBitIndex starts one ahead, so the payload is read from
\* the last header channel on
PayloadLoop_early(data, messageLength) ==
  PayloadOuter(data, messageLength, <<>>, 0, 1)

PayloadLoop(data, messageLength) == PayloadOuter(data, messageLength, <<>>, 0, 0)

\* variant: messageLength < 0 in place of messageLength <= 0
InvalidLength_neg(messageLength, width, height) ==
  messageLength < 0 \/ messageLength > width * height * 3

\* the validation of the length read from the header
InvalidLength(messageLength, width, height) ==
  messageLength <= 0 \/ messageLength > width * height * 3


\* variant: >= in place of >
ExceedsCapacity_ge(payload, width, height) ==
  Len(payload) >= maxCapacityBits(width, height)

\* variant: the test lets one character too many through
ExceedsCapacity_slack(payload, width, height) ==
  Len(payload) > maxCapacityBits(width, height) + 8

\* the capacity test of handleEncode
ExceedsCapacity(payload, width, height) ==
  Len(payload) > maxCapacityBits(width, height)

\* variant: the test allows a header two bits short
HeaderTruncated_short(binaryLength) ==
  Len(binaryLength) < BITS_FOR_LENGTH - 2

\* the test after the header loops of handleDecode
HeaderTruncated(binaryLength) == Len(binaryLength) < BITS_FOR_LENGTH

\* variant: a payload one character short is let through
PayloadTruncated_byte(binaryMessage, messageLength) ==
  Len(binaryMessage) < messageLength - 8

\* the test after the payload loops of handleDecode
PayloadTruncated(binaryMessage, messageLength) ==
  Len(binaryMessage) < messageLength

\* variant: the embed loops run before the capacity test
EncodedCanvasData_late(data, payload, width, height) ==
  EmbedLoop(data, payload)

\* What the canvas holds when the img.onload callback of handleEncode
\* returns: the capacity test comes first, getImageData / the embed loops /
\* putImageData only after it.
EncodedCanvasData(data, payload, width, height) ==
  IF ExceedsCapacity(payload, width, height) THEN data
  ELSE EmbedLoop(data, payload)

\* variant: the header bits are not subtracted
calculateCapacity_noHeader(width, height) == (width * height * 3) \div 8

\* variant: Math.ceil in place of Math.floor
calculateCapacity_ceil(width, height) ==
  (width * height * 3 - BITS_FOR_LENGTH + 7) \div 8

\* calculateCapacity of the encode form (Math.floor rounds towards minus
\* infinity, as \div does)
calculateCapacity(width, height) ==
  (width * height * 3 - BITS_FOR_LENGTH) \div 8

\* originalNameParts.pop(); join('.') || 'encoded_image'; `${baseName}.png`.
\* A file name is the sequence of its dot-separated parts.
NewFileName(nameParts) ==
  LET baseParts == SubSeq(nameParts, 1, Len(nameParts) - 1)
  IN  IF baseParts = <<>> \/ baseParts = <<"">>
      THEN <<"encoded_image", "png">>
      ELSE Append(baseParts, "png")

\* ------------------------------------------------------------ the inputs
\* code units offered to the message box: space, 'h', y-diaeresis (the last
\* Latin-1 code) and A-macron (the first code unit beyond Latin-1)
Chars == {32, 104, 255, 256}

Messages == UNION {[1..n -> Chars] : n \in 0..MaxMsgLen}

\* pixel contents: Ramp gives every channel, alpha included, its own value
Ramp(k) == (k * 37 + 11 + (k \div 4)) % 256

RampData(width, height) ==
  [k \in 1..(width * height * 4) |-> Ramp(k - 1)]

\* a picture whose RGB least significant bits spell the 32-bit big-endian
\* header `header` (below 2^31) followed by alternating bits, on arbitrary
\* upper bits
CraftedData(width, height, header) ==
  LET Bit(c) == IF c = 0 THEN 0
                ELSE (header \div (2 ^ (BITS_FOR_LENGTH - 1 - c))) % 2
      Value(k) ==
        LET c == 3 * (k \div 4) + (k % 4)
        IN  IF k % 4 = 3 THEN 255 - k
            ELSE IF c < BITS_FOR_LENGTH THEN 2 * ((k * 5) % 128) + Bit(c)
            ELSE 2 * ((k * 5) % 128) + (c % 2)
  IN  [k \in 1..(width * height * 4) |-> Value(k - 1)]

ImageFile(nameParts, type, width, height, data) ==
  [name |-> nameParts, type |-> type, readOk |-> TRUE, loadOk |-> TRUE,
   width |-> width, height |-> height, data |-> data, hidden |-> None,
   origin |-> None]

Tiny      == ImageFile(<<"tiny", "png">>, "image/png", 2, 2,
                       RampData(2, 2))
Strip13   == ImageFile(<<"strip", "png">>, "image/png", 13, 1,
                       RampData(13, 1))
Photo14   == ImageFile(<<"photo", "v2", "jpg">>, "image/jpeg", 7, 2,
                       RampData(7, 2))
Ramp16    == ImageFile(<<"ramp", "png">>, "image/png", 4, 4,
                       RampData(4, 4))
Extremes(k) == IF k % 2 = 0 THEN 0 ELSE 255

Extremes16 == ImageFile(<<"extremes">>, "image/png", 4, 4,
                        [k \in 1..64 |-> Extremes(k - 1)])
Black16   == ImageFile(<<"", "png">>, "image/png", 4, 4,
                       [k \in 1..64 |-> 0])
Unreadable == [Ramp16 EXCEPT !.name = <<"gone", "png">>, !.readOk = FALSE]
Corrupt    == [Ramp16 EXCEPT !.name = <<"bad", "jpg">>, !.type = "image/jpeg",
                             !.loadOk = FALSE]

Strip10   == ImageFile(<<"strip10", "png">>, "image/png", 10, 1,
                       CraftedData(10, 1, 8))
Crafted(header) == ImageFile(<<"crafted", "png">>, "image/png", 4, 4,
                             CraftedData(4, 4, header))
Strip11(header) == ImageFile(<<"strip11", "png">>, "image/png", 11, 1,
                             CraftedData(11, 1, header))

\* header values written into the crafted pictures (capacity 48 bits, so
\* 16 payload bits at most): valid, misaligned, beyond the payload room,
\* beyond the capacity, and far beyond
CraftedHeaders == {8, 12, 16, 17, 24, 48, 49, 1073741824}

EncodeFiles == {Tiny, Strip13, Photo14, Ramp16, Extremes16,
                Unreadable, Corrupt}

\* Pictures offered to the decode form.  Every one has a clear least
\* significant bit in its first channel, so that the header value stays
\* below 2^31.
DecodeFiles == {Tiny, Strip10, Strip11(0), Strip11(1), Black16,
                Unreadable, Corrupt}
               \cup {Crafted(header) : header \in CraftedHeaders}

\* the file written by the download link: a PNG with the canvas contents;
\* hidden remembers the message that was embedded into it and origin the
\* pixels it was embedded into
DownloadedFile(result, message, source) ==
  [name |-> result.originalName, type |-> "image/png",
   readOk |-> TRUE, loadOk |-> TRUE,
   width |-> result.dataUrl.width, height |-> result.dataUrl.height,
   data |-> result.dataUrl.data, hidden |-> Some(message),
   origin |-> Some(source)]

\* ------------------------------------------------------------- the state
NoFile == [name |-> <<>>, type |-> "", readOk |-> FALSE, loadOk |-> FALSE,
           width |-> 0, height |-> 0, data |-> <<>>, hidden |-> None,
           origin |-> None]

\* The encode form's own state: selectedFile, message and imageCapacity.
\* pending holds the pictures whose img.onload has not run yet, each with
\* the message its closure captured; capacityImage remembers the width and
\* height that the last img.onload passed to calculateCapacity.
NoForm == [selectedFile |-> None, message |-> <<>>, imageCapacity |-> None,
           capacityImage |-> <<0, 0>>, pending |-> {}]

\* The state of the decode form that takes a file or a URL: imageSrc,
\* selectedFile, imageUrlInput, isPackagedFileProcessed and
\* objectUrlToRevoke.  readers holds the FileReaders that still owe an
\* event, and onDecode the arguments of the last call of onDecode.
NoUrlForm == [imageSrc |-> None, selectedFile |-> None, imageUrlInput |-> "",
              isPackagedFileProcessed |-> FALSE, objectUrlToRevoke |-> None,
              readers |-> {}, onDecode |-> None]

\* toast: the latest toast raised since the last click or tab change.
\* op: the operation started by the last click.  stage is "reading" while
\* the FileReader works, "loading" while the Image loads, "done" once an
\* outcome was delivered and "threw" when the callback ended by an uncaught
\* exception; outcome names the branch that ended it.
\* inFlight counts the operations that were started and have not delivered
\* an outcome yet.
NoOp == [kind |-> "none", stage |-> "idle", file |-> NoFile,
         message |-> <<>>, outcome |-> "none", inFlight |-> 0]

Err(text, a, b) == Some([text |-> text, a |-> a, b |-> b])

Init ==
  /\ tab = "encode"
  /\ isLoading = FALSE
  /\ encodedImageResult = None
  /\ decodedMessage = None
  /\ error = None
  /\ toast = "none"
  /\ op = NoOp
  /\ canvas = None
  /\ downloaded = None
  /\ form = NoForm
  /\ urlForm = NoUrlForm

\* variant: setError(null) is left out
clearNotifications_keep ==
  /\ UNCHANGED error
  /\ decodedMessage' = None
  /\ encodedImageResult' = None

\* clearNotifications, as the primed values of the three result variables
clearNotifications ==
  /\ error' = None
  /\ decodedMessage' = None
  /\ encodedImageResult' = None

\* Tabs onValueChange.  The loading overlay covers the page while isLoading.
TabChange ==
  /\ ~isLoading
  /\ tab' = IF tab = "encode" THEN "decode" ELSE "encode"
  /\ clearNotifications
  /\ op' = NoOp
  /\ canvas' = None
  /\ toast' = "none"
  /\ form' = NoForm
  /\ UNCHANGED <<urlForm, isLoading, downloaded>>

\* handleDownloadEncodedImage: the link is rendered with the result
Download ==
  /\ tab = "encode"
  /\ ~isLoading
  /\ encodedImageResult # None
  /\ downloaded' = Some(DownloadedFile(encodedImageResult[1], op.message,
                                      op.file.data))
  /\ toast' = "Download Started"
  /\ UNCHANGED <<urlForm, form, tab, isLoading, encodedImageResult, decodedMessage, error,
                 op, canvas>>

\* variant: the test against the known capacity is left out
EncodeFormAccepts_noCapacity(message, imageCapacity) ==
  /\ ~IsBlank(message)
  /\ ~(Len(message) > MAX_MESSAGE_LENGTH)

\* the guards of the encode form's handleEncode and of its button
EncodeFormAccepts(message, imageCapacity) ==
  /\ ~IsBlank(message)
  /\ ~(Len(message) > MAX_MESSAGE_LENGTH)
  /\ ~(imageCapacity # None /\ Len(message) > imageCapacity[1])

\* imageCapacity at the time of the click: still null, or the capacity that
\* an img.onload of the form computed for a picture that was selected
KnownCapacities ==
  {None} \cup {Some(calculateCapacity(f.width, f.height)) : f \in EncodeFiles}

\* the page's handleEncode up to reader.readAsDataURL (the forms offer
\* image files only, so the file type test passes)
handleEncode(file, message) ==
  /\ clearNotifications
  /\ isLoading' = TRUE
  /\ toast' = IF file.type # "image/png"
              THEN "Warning: PNG images are recommended"
              ELSE "none"
  /\ op' = [kind |-> "encode", stage |-> "reading", file |-> file,
            message |-> message, outcome |-> "none",
            inFlight |-> op.inFlight + 1]
  /\ canvas' = None

\* variant: the button stays enabled while isLoading
EncodeClick_whileLoading ==
  /\ tab = "encode"
  /\ \E file \in EncodeFiles, message \in Messages :
       /\ \E imageCapacity \in KnownCapacities :
            EncodeFormAccepts(message, imageCapacity)
       /\ handleEncode(file, message)
  /\ UNCHANGED <<urlForm, form, tab, downloaded>>

\* Click on "Encode Message into Image": the form's handleEncode, then the
\* page's handleEncode.
EncodeClick ==
  /\ tab = "encode"
  /\ ~isLoading
  /\ \E file \in EncodeFiles, message \in Messages :
       /\ \E imageCapacity \in KnownCapacities :
            EncodeFormAccepts(message, imageCapacity)
       /\ handleEncode(file, message)
  /\ UNCHANGED <<urlForm, form, tab, downloaded>>

\* reader.onerror of handleEncode
EncodeReaderOnerror ==
  /\ op.kind = "encode" /\ op.stage = "reading"
  /\ ~op.file.readOk
  /\ toast' = "Failed to read file."
  /\ isLoading' = FALSE
  /\ op' = [op EXCEPT !.stage = "done", !.inFlight = @ - 1,
                             !.outcome = "read-failed"]
  /\ UNCHANGED <<urlForm, form, tab, encodedImageResult, decodedMessage, error, canvas,
                 downloaded>>

\* reader.onload of handleEncode: readAsDataURL delivers a non-empty string,
\* the Image is created and its src set
EncodeReaderOnload ==
  /\ op.kind = "encode" /\ op.stage = "reading"
  /\ op.file.readOk
  /\ op' = [op EXCEPT !.stage = "loading"]
  /\ UNCHANGED <<urlForm, form, tab, isLoading, encodedImageResult, decodedMessage, error,
                 toast, canvas, downloaded>>

\* img.onerror of handleEncode
EncodeImgOnerror ==
  /\ op.kind = "encode" /\ op.stage = "loading"
  /\ ~op.file.loadOk
  /\ toast' = "Could not load image for encoding."
  /\ isLoading' = FALSE
  /\ op' = [op EXCEPT !.stage = "done", !.inFlight = @ - 1,
                             !.outcome = "load-failed"]
  /\ UNCHANGED <<urlForm, form, tab, encodedImageResult, decodedMessage, error, canvas,
                 downloaded>>


\* a canvas of the picture's size: transparent black until drawImage
BlankCanvas(file) ==
  [width |-> file.width, height |-> file.height,
   data |-> [k \in 1..(file.width * file.height * 4) |-> 0]]

DrawnCanvas(file) ==
  [width |-> file.width, height |-> file.height, data |-> file.data]

\* variant: the embedded pixels are written back into the picture itself
ImgAfterEncode_inPlace(file, after) == [file EXCEPT !.data = after.data]

\* The picture that was handed to handleEncode, once the callback has
\* written its result: drawImage and getImageData copy the pixels and
\* putImageData writes the canvas, so the picture keeps its pixels.
ImgAfterEncode(file, after) == file

\* img.onload of handleEncode.  ctxOk: whether canvas.getContext('2d')
\* returned a context.
EncodeImgOnload ==
  /\ op.kind = "encode" /\ op.stage = "loading"
  /\ op.file.loadOk
  /\ \E ctxOk \in BOOLEAN :
       LET file          == op.file
           binaryMessage == textToBinary(op.message)
           payload       == fullBinaryPayload(binaryMessage.bits)
           capacity      == maxCapacityBits(file.width, file.height)
           after         == [DrawnCanvas(file) EXCEPT !.data =
                               EncodedCanvasData(file.data, payload,
                                                 file.width, file.height)]
       IN
       IF ~ctxOk THEN
         /\ canvas' = Some(BlankCanvas(file))
         /\ toast' = "Could not get canvas context."
         /\ isLoading' = FALSE
         /\ op' = [op EXCEPT !.stage = "done", !.inFlight = @ - 1,
                             !.outcome = "no-context"]
         /\ UNCHANGED <<error, encodedImageResult>>
       ELSE IF binaryMessage.threw THEN
         \* RangeError out of textToBinary: the callback ends here
         /\ canvas' = Some(DrawnCanvas(file))
         /\ op' = [op EXCEPT !.stage = "threw", !.outcome = "exception"]
         /\ UNCHANGED <<toast, isLoading, error, encodedImageResult>>
       ELSE IF ExceedsCapacity(payload, file.width, file.height) THEN
         /\ canvas' = Some(after)
         /\ toast' = "Message too long for this image."
         /\ error' = Err("Message too long for this image.",
                         capacity \div 8, (Len(payload) + 7) \div 8)
         /\ isLoading' = FALSE
         /\ op' = [op EXCEPT !.stage = "done", !.inFlight = @ - 1,
                             !.outcome = "capacity"]
         /\ UNCHANGED encodedImageResult
       ELSE
         /\ canvas' = Some(after)
         /\ encodedImageResult' =
              Some([dataUrl |-> after, originalName |-> NewFileName(file.name)])
         /\ toast' = "Encoding Complete"
         /\ isLoading' = FALSE
         /\ op' = [op EXCEPT !.file = ImgAfterEncode(file, after),
                             !.stage = "done", !.inFlight = @ - 1,
                             !.outcome = "encoded"]
         /\ UNCHANGED error
  /\ UNCHANGED <<urlForm, form, tab, decodedMessage, downloaded>>

\* the page's handleDecode up to reader.readAsDataURL
handleDecode(file) ==
  /\ clearNotifications
  /\ isLoading' = TRUE
  /\ toast' = IF file.type # "image/png"
              THEN "Warning: primarily supports PNG"
              ELSE "none"
  /\ op' = [kind |-> "decode", stage |-> "reading", file |-> file,
            message |-> <<>>, outcome |-> "none",
            inFlight |-> op.inFlight + 1]
  /\ canvas' = None

\* Click on "Decode from Image": the form's handleDecodeClick, then the
\* page's handleDecode.
DecodeClick ==
  /\ tab = "decode"
  /\ ~isLoading
  /\ \E file \in DecodeFiles \cup {downloaded[k] : k \in 1..Len(downloaded)} :
       handleDecode(file)
  /\ UNCHANGED <<urlForm, form, tab, downloaded>>

\* reader.onerror of handleDecode
DecodeReaderOnerror ==
  /\ op.kind = "decode" /\ op.stage = "reading"
  /\ ~op.file.readOk
  /\ toast' = "Failed to read file."
  /\ isLoading' = FALSE
  /\ op' = [op EXCEPT !.stage = "done", !.inFlight = @ - 1,
                             !.outcome = "read-failed"]
  /\ UNCHANGED <<urlForm, form, tab, encodedImageResult, decodedMessage, error, canvas,
                 downloaded>>

\* reader.onload of handleDecode
DecodeReaderOnload ==
  /\ op.kind = "decode" /\ op.stage = "reading"
  /\ op.file.readOk
  /\ op' = [op EXCEPT !.stage = "loading"]
  /\ UNCHANGED <<urlForm, form, tab, isLoading, encodedImageResult, decodedMessage, error,
                 toast, canvas, downloaded>>

\* img.onerror of handleDecode
DecodeImgOnerror ==
  /\ op.kind = "decode" /\ op.stage = "loading"
  /\ ~op.file.loadOk
  /\ toast' = "Could not load image for decoding."
  /\ isLoading' = FALSE
  /\ op' = [op EXCEPT !.stage = "done", !.inFlight = @ - 1,
                             !.outcome = "load-failed"]
  /\ UNCHANGED <<urlForm, form, tab, encodedImageResult, decodedMessage, error, canvas,
                 downloaded>>

\* img.onload of handleDecode
DecodeImgOnload ==
  /\ op.kind = "decode" /\ op.stage = "loading"
  /\ op.file.loadOk
  /\ \E ctxOk \in BOOLEAN :
       LET file          == op.file
           data          == file.data
           binaryLength  == HeaderLoop(data)
           messageLength == ParseInt2(binaryLength)
           binaryMessage == PayloadLoop(data, messageLength)
       IN
       IF ~ctxOk THEN
         /\ canvas' = Some(BlankCanvas(file))
         /\ toast' = "Could not get canvas context."
         /\ isLoading' = FALSE
         /\ op' = [op EXCEPT !.stage = "done", !.inFlight = @ - 1,
                             !.outcome = "no-context"]
         /\ UNCHANGED <<error, decodedMessage>>
       ELSE
         /\ canvas' = Some(DrawnCanvas(file))
         /\ isLoading' = FALSE
         /\ IF HeaderTruncated(binaryLength) THEN
              /\ toast' = "Decoding Error: could not read message length"
              /\ error' = Err("Could not read message length.", 0, 0)
              /\ op' = [op EXCEPT !.stage = "done", !.inFlight = @ - 1,
                             !.outcome = "header"]
              /\ UNCHANGED decodedMessage
            ELSE IF InvalidLength(messageLength, file.width, file.height) THEN
              /\ toast' = "Decoding Error: invalid message length"
              /\ error' = Err("Invalid message length found.", 0, 0)
              /\ op' = [op EXCEPT !.stage = "done", !.inFlight = @ - 1,
                             !.outcome = "length"]
              /\ UNCHANGED decodedMessage
            ELSE IF PayloadTruncated(binaryMessage, messageLength) THEN
              /\ toast' = "Decoding Incomplete"
              /\ error' = Err("Failed to extract the complete message.", 0, 0)
              /\ op' = [op EXCEPT !.stage = "done", !.inFlight = @ - 1,
                             !.outcome = "payload"]
              /\ UNCHANGED decodedMessage
            ELSE
              /\ decodedMessage' = Some(binaryToText(binaryMessage))
              /\ toast' = "Decoding Complete"
              /\ op' = [op EXCEPT !.stage = "done", !.inFlight = @ - 1,
                             !.outcome = "decoded"]
              /\ UNCHANGED error
  /\ UNCHANGED <<urlForm, form, tab, encodedImageResult, downloaded>>

Next ==
  \/ TabChange
  \/ Download
  \/ EncodeClick
  \/ EncodeReaderOnerror
  \/ EncodeReaderOnload
  \/ EncodeImgOnerror
  \/ EncodeImgOnload
  \/ DecodeClick
  \/ DecodeReaderOnerror
  \/ DecodeReaderOnload
  \/ DecodeImgOnerror
  \/ DecodeImgOnload

Spec == Init /\ [][Next]_vars

\* The browser delivers every callback it has queued: the FileReader ends
\* with load or error, and so does the Image.
SpecLive ==
  /\ Spec
  /\ WF_vars(EncodeReaderOnerror) /\ WF_vars(EncodeReaderOnload)
  /\ WF_vars(EncodeImgOnerror) /\ WF_vars(EncodeImgOnload)
  /\ WF_vars(DecodeReaderOnerror) /\ WF_vars(DecodeReaderOnload)
  /\ WF_vars(DecodeImgOnerror) /\ WF_vars(DecodeImgOnload)

\* ------------------------------------------------ the encode form's state
\* In Spec the contents of the form are drawn at the click; the actions
\* below follow them through the form's own handlers.
MaxPending == 1

\* a file that is no picture
Notes == [Tiny EXCEPT !.name = <<"notes", "txt">>, !.type = "text/plain",
                      !.loadOk = FALSE]

FormFiles == {Tiny, Photo14, Ramp16, Notes}

\* a text one character over the general limit; the Textarea takes up to
\* MAX_MESSAGE_LENGTH * 1.2 characters
LongMessage == [k \in 1..(MAX_MESSAGE_LENGTH + 1) |-> 104]

\* the texts typed into the form: a blank one, runs of 'h' and the long one
FormMessages == {<<32>>, LongMessage}
                \cup {[k \in 1..n |-> 104] : n \in 0..MaxMsgLen}

\* file.type.startsWith('image/')
IsImageType(type) == type \in {"image/png", "image/jpeg", "image/webp"}

\* handleImageFileChange of the encode form; tooBig says whether the file
\* is larger than 10MB
FormSelectFile ==
  /\ tab = "encode"
  /\ ~isLoading
  /\ Cardinality(form.pending) < MaxPending
  /\ \E file \in FormFiles, tooBig \in BOOLEAN :
       IF ~IsImageType(file.type)
       THEN /\ form' = [form EXCEPT !.selectedFile = None,
                                    !.imageCapacity = None]
            /\ toast' = "Error: Please upload a valid image file"
       ELSE IF tooBig
       THEN /\ form' = [form EXCEPT !.selectedFile = None,
                                    !.imageCapacity = None]
            /\ toast' = "Error: Image size should not exceed 10MB."
       ELSE /\ form' = [form EXCEPT
                          !.selectedFile = Some(file),
                          !.imageCapacity = None,
                          !.pending = IF file.loadOk
                                      THEN @ \cup {[file |-> file,
                                                    message |-> form.message]}
                                      ELSE @]
            /\ UNCHANGED toast
  /\ UNCHANGED <<urlForm, tab, isLoading, encodedImageResult, decodedMessage, error,
                 op, canvas, downloaded>>

\* img.onload of handleImageFileChange
FormImgOnload ==
  /\ \E p \in form.pending :
       LET capacity == calculateCapacity(p.file.width, p.file.height)
       IN  /\ form' = [form EXCEPT
                         !.imageCapacity = Some(capacity),
                         !.capacityImage = <<p.file.width, p.file.height>>,
                         !.pending = @ \ {p}]
           /\ toast' = IF Len(p.message) > capacity
                       THEN "Warning: message exceeds image capacity"
                       ELSE toast
  /\ UNCHANGED <<urlForm, tab, isLoading, encodedImageResult, decodedMessage, error,
                 op, canvas, downloaded>>

\* onChange of the message Textarea
FormSetMessage ==
  /\ tab = "encode"
  /\ ~isLoading
  /\ \E newMsg \in FormMessages :
       /\ form' = [form EXCEPT !.message = newMsg]
       /\ toast' = IF form.imageCapacity # None
                      /\ Len(newMsg) > form.imageCapacity[1]
                   THEN "Warning: message exceeds image capacity"
                   ELSE IF Len(newMsg) > MAX_MESSAGE_LENGTH
                   THEN "Warning: message exceeds general limit"
                   ELSE toast
  /\ UNCHANGED <<urlForm, tab, isLoading, encodedImageResult, decodedMessage, error,
                 op, canvas, downloaded>>

\* Click on "Encode Message into Image" with the form's own contents; the
\* button is disabled without a file or with a blank message
FormEncodeClick ==
  /\ tab = "encode"
  /\ ~isLoading
  /\ form.selectedFile # None
  /\ ~IsBlank(form.message)
  /\ IF EncodeFormAccepts(form.message, form.imageCapacity)
     THEN handleEncode(form.selectedFile[1], form.message)
     ELSE /\ toast' = IF Len(form.message) > MAX_MESSAGE_LENGTH
                      THEN "Error: Message exceeds maximum allowed length"
                      ELSE "Error: Message is too long for the selected image"
          /\ UNCHANGED <<isLoading, encodedImageResult, decodedMessage,
                         error, op, canvas>>
  /\ UNCHANGED <<urlForm, tab, downloaded, form>>

NextForm ==
  \/ TabChange
  \/ FormSelectFile
  \/ FormImgOnload
  \/ FormSetMessage
  \/ FormEncodeClick
  \/ EncodeReaderOnload
  \/ EncodeImgOnload

SpecForm == Init /\ [][NextForm]_vars

\* ------------------------------- the decode form with a file and a URL
\* package: the text is the JSON package written by the encode form;
\* previewOk: readAsDataURL succeeds
UploadFile(name, type, readOk, package, previewOk) ==
  [name |-> name, type |-> type, readOk |-> readOk, package |-> package,
   previewOk |-> previewOk]

UploadFiles ==
  {UploadFile("secret.json", "application/json", TRUE, TRUE, TRUE),
   UploadFile("plain.png", "image/png", TRUE, FALSE, TRUE),
   UploadFile("moved.png", "image/png", TRUE, FALSE, FALSE),
   UploadFile("gone.png", "image/png", FALSE, FALSE, FALSE),
   UploadFile("notes.txt", "text/plain", TRUE, FALSE, TRUE)}

Urls == {"", "https://example.com/a.png"}

\* handleImageFileChange and handleFileUpload; tooBig says whether the file
\* is larger than 10MB
UrlFormFileUpload ==
  /\ ~isLoading
  /\ Cardinality(urlForm.readers) < MaxPending
  /\ \E file \in UploadFiles, tooBig \in BOOLEAN :
       /\ urlForm' = [urlForm EXCEPT
                        !.objectUrlToRevoke = None,
                        !.selectedFile = None,
                        !.imageSrc = None,
                        !.isPackagedFileProcessed = FALSE,
                        !.imageUrlInput = "",
                        !.readers = IF tooBig THEN @
                                    ELSE @ \cup {[file |-> file,
                                                  stage |-> "text"]}]
       /\ toast' = IF tooBig THEN "Error: File size should not exceed 10MB."
                   ELSE toast
  /\ UNCHANGED <<tab, isLoading, encodedImageResult, decodedMessage, error,
                 op, canvas, downloaded, form>>

\* reader.onerror of handleFileUpload; the loadend event follows it
UrlFormReaderOnerror ==
  /\ \E r \in urlForm.readers :
       /\ r.stage = "text" /\ ~r.file.readOk
       /\ urlForm' = [urlForm EXCEPT
                        !.imageSrc = None, !.selectedFile = None,
                        !.readers = (@ \ {r})
                                    \cup {[r EXCEPT !.stage = "text-failed"]}]
       /\ toast' = "Error: Could not read the file."
  /\ UNCHANGED <<tab, isLoading, encodedImageResult, decodedMessage, error,
                 op, canvas, downloaded, form>>

\* reader.onloadend of handleFileUpload.  After an error reader.result is
\* null, the property access on the parsed null throws and the catch block
\* runs.
UrlFormReaderOnloadend ==
  /\ \E r \in urlForm.readers :
       /\ \/ r.stage = "text" /\ r.file.readOk
          \/ r.stage = "text-failed"
       /\ IF r.stage = "text" /\ r.file.package
          THEN /\ urlForm' = [urlForm EXCEPT
                               !.imageSrc = Some("data:package"),
                               !.selectedFile = Some(r.file),
                               !.isPackagedFileProcessed = TRUE,
                               !.onDecode = Some(<<"package", r.file.name>>),
                               !.readers = @ \ {r}]
               /\ UNCHANGED toast
          ELSE IF IsImageType(r.file.type)
          THEN /\ urlForm' = [urlForm EXCEPT
                               !.readers = (@ \ {r})
                                  \cup {[r EXCEPT !.stage = "preview"]}]
               /\ UNCHANGED toast
          ELSE /\ urlForm' = [urlForm EXCEPT
                               !.imageSrc = None, !.selectedFile = None,
                               !.readers = @ \ {r}]
               /\ toast' = "Error: Unsupported file type"
  /\ UNCHANGED <<tab, isLoading, encodedImageResult, decodedMessage, error,
                 op, canvas, downloaded, form>>

\* imagePreviewReader.onerror; the loadend event follows it
UrlFormPreviewOnerror ==
  /\ \E r \in urlForm.readers :
       /\ r.stage = "preview" /\ ~r.file.previewOk
       /\ urlForm' = [urlForm EXCEPT
                        !.imageSrc = None, !.selectedFile = None,
                        !.readers = (@ \ {r})
                                    \cup {[r EXCEPT !.stage = "preview-failed"]}]
       /\ toast' = "Error: Could not read the image file for preview."
  /\ UNCHANGED <<tab, isLoading, encodedImageResult, decodedMessage, error,
                 op, canvas, downloaded, form>>

\* imagePreviewReader.onloadend.  readAsDataURL gives a "data:" URL, so
\* objectUrlToRevoke is not set; after an error the result is null, the two
\* setters have run and startsWith throws.
UrlFormPreviewOnloadend ==
  /\ \E r \in urlForm.readers :
       /\ \/ r.stage = "preview" /\ r.file.previewOk
          \/ r.stage = "preview-failed"
       /\ urlForm' = [urlForm EXCEPT
                        !.imageSrc = IF r.stage = "preview"
                                     THEN Some("data:image") ELSE None,
                        !.selectedFile = Some(r.file),
                        !.readers = @ \ {r}]
  /\ UNCHANGED <<tab, isLoading, encodedImageResult, decodedMessage, error,
                 toast, op, canvas, downloaded, form>>

\* handleImageUrlChange
UrlFormUrlChange ==
  /\ ~isLoading
  /\ \E url \in Urls :
       /\ url # urlForm.imageUrlInput
       /\ urlForm' = [urlForm EXCEPT
                        !.objectUrlToRevoke = None,
                        !.isPackagedFileProcessed = FALSE,
                        !.imageUrlInput = url,
                        !.imageSrc = IF url # "" THEN Some(url)
                                     ELSE IF urlForm.selectedFile = None
                                     THEN None ELSE @,
                        !.selectedFile = IF url # "" THEN None ELSE @]
  /\ UNCHANGED <<tab, isLoading, encodedImageResult, decodedMessage, error,
                 toast, op, canvas, downloaded, form>>

\* handleDecodeClick of this form; the button is rendered while no package
\* was processed and disabled without a picture
UrlFormDecodeClick ==
  /\ ~isLoading
  /\ ~urlForm.isPackagedFileProcessed
  /\ ~(urlForm.imageSrc = None /\ urlForm.selectedFile = None)
  /\ IF urlForm.selectedFile # None
     THEN /\ urlForm' = [urlForm EXCEPT
                          !.onDecode = Some(<<"file",
                                              urlForm.selectedFile[1].name>>)]
          /\ UNCHANGED toast
     ELSE IF urlForm.imageUrlInput # ""
     THEN /\ urlForm' = [urlForm EXCEPT
                          !.onDecode = Some(<<"url", urlForm.imageUrlInput>>)]
          /\ UNCHANGED toast
     ELSE /\ toast' = "Error: No image selected or URL provided"
          /\ UNCHANGED urlForm
  /\ UNCHANGED <<tab, isLoading, encodedImageResult, decodedMessage, error,
                 op, canvas, downloaded, form>>

NextUrl ==
  \/ UrlFormFileUpload
  \/ UrlFormReaderOnerror
  \/ UrlFormReaderOnloadend
  \/ UrlFormPreviewOnerror
  \/ UrlFormPreviewOnloadend
  \/ UrlFormUrlChange
  \/ UrlFormDecodeClick

SpecUrl == Init /\ [][NextUrl]_vars

\* ------------------------------------------- the 10x10 grey picture runs
\* a 10x10 picture whose 400 channel values are all 128
Grey100 == ImageFile(<<"grey", "png">>, "image/png", 10, 10,
                     [k \in 1..400 |-> 128])

\* the messages over 'h' and 'i'
HiMessages == UNION {[1..n -> {104, 105}] : n \in 1..MaxMsgLen}

\* Click on "Encode Message into Image" with the grey picture selected
GreyEncodeClick ==
  /\ tab = "encode"
  /\ ~isLoading
  /\ \E message \in HiMessages :
       /\ \E imageCapacity \in {None, Some(calculateCapacity(10, 10))} :
            EncodeFormAccepts(message, imageCapacity)
       /\ handleEncode(Grey100, message)
  /\ UNCHANGED <<urlForm, form, tab, downloaded>>

\* Click on "Decode from Image" with the grey picture or the downloaded
\* picture selected
GreyDecodeClick ==
  /\ tab = "decode"
  /\ ~isLoading
  /\ \E file \in {Grey100} \cup {downloaded[k] : k \in 1..Len(downloaded)} :
       handleDecode(file)
  /\ UNCHANGED <<urlForm, form, tab, downloaded>>

NextGrey ==
  \/ TabChange
  \/ Download
  \/ GreyEncodeClick
  \/ EncodeReaderOnload
  \/ EncodeImgOnload
  \/ GreyDecodeClick
  \/ DecodeReaderOnload
  \/ DecodeImgOnload

SpecGrey == Init /\ [][NextGrey]_vars

TypeOK ==
  /\ tab \in {"encode", "decode"}
  /\ isLoading \in BOOLEAN
  /\ Len(encodedImageResult) <= 1
  /\ Len(decodedMessage) <= 1
  /\ Len(error) <= 1
  /\ op.kind \in {"none", "encode", "decode"}
  /\ op.stage \in {"idle", "reading", "loading", "done", "threw"}


\* ------------------------------------------------------------ properties
\* buffer index (from 0) of the k-th embeddable channel (from 0)
ChannelIndex(k) == 4 * (k \div 3) + (k % 3)

\* least significant bit of the k-th embeddable channel of data
ChannelBit(data, k) == data[ChannelIndex(k) + 1] % 2

\* value of the 32 header bits of a picture with at least 32 channels
HeaderValue(data) ==
  ParseInt2([k \in 1..BITS_FOR_LENGTH |-> ChannelBit(data, k - 1)])

IsLatin1(text) == \A k \in 1..Len(text) : text[k] <= 255

\* the encode or decode callback ran with a 2d context and returned
EncodeRan == op.kind = "encode" /\ op.stage = "done"
             /\ op.outcome \in {"encoded", "capacity"}

DecodeRan == op.kind = "decode" /\ op.stage = "done"
             /\ op.outcome \in {"header", "length", "payload", "decoded"}

EnvelopeBits(message) == BITS_FOR_LENGTH + 8 * Len(message)

CapacityOf(file) == file.width * file.height * 3

ErrorIs(text) == error # None /\ error[1].text = text

\* C1: decoding a downloaded encoded picture yields exactly the message
\* that was embedded into it, whatever picture and message were used.
C1_RoundTrip ==
  (DecodeRan /\ op.file.hidden # None)
    => (decodedMessage = op.file.hidden /\ error = None)

C1_Witness ==
  /\ DecodeRan /\ op.file.hidden # None
  /\ decodedMessage = Some(<<255, 32>>)
  /\ CapacityOf(op.file) = EnvelopeBits(<<255, 32>>)

\* C2: after the embed loops every alpha byte (index 4p+3) of the canvas
\* and of the encoded result equals the alpha byte of the source picture.
C2_AlphaInvariance ==
  EncodeRan =>
    \A p \in 0..(op.file.width * op.file.height - 1) :
      /\ canvas[1].data[4 * p + 4] = op.file.data[4 * p + 4]
      /\ encodedImageResult # None =>
           encodedImageResult[1].dataUrl.data[4 * p + 4] = op.file.data[4 * p + 4]

C2_Witness ==
  /\ EncodeRan /\ op.outcome = "encoded"
  /\ EnvelopeBits(op.message) = CapacityOf(op.file)
  /\ \E p \in 0..(op.file.width * op.file.height - 1) :
       op.file.data[4 * p + 4] % 2 = 0
  /\ \E p \in 0..(op.file.width * op.file.height - 1) :
       op.file.data[4 * p + 4] % 2 = 1

\* C3: every R, G, B byte of the encoded picture has the upper seven bits
\* of the source byte and differs from it by at most 1.
C3_NonLsbInvariance ==
  (EncodeRan /\ op.outcome = "encoded") =>
    \A k \in 0..(CapacityOf(op.file) - 1) :
      LET out == encodedImageResult[1].dataUrl.data[ChannelIndex(k) + 1]
          orig == op.file.data[ChannelIndex(k) + 1]
      IN  /\ out \div 2 = orig \div 2
          /\ out - orig \in {-1, 0, 1}

C3_Witness ==
  /\ EncodeRan /\ op.outcome = "encoded"
  /\ \E k \in 0..(CapacityOf(op.file) - 1) :
       encodedImageResult[1].dataUrl.data[ChannelIndex(k) + 1]
         = op.file.data[ChannelIndex(k) + 1] + 1
  /\ \E k \in 0..(CapacityOf(op.file) - 1) :
       encodedImageResult[1].dataUrl.data[ChannelIndex(k) + 1]
         = op.file.data[ChannelIndex(k) + 1] - 1

\* C4: an encode whose envelope (32 + 8 bits per character) is at most
\* width*height*3 bits succeeds, one whose envelope is longer, even by one
\* bit, ends with the capacity error and no result.
C4_CapacityBoundary ==
  (op.kind = "encode" /\ op.stage = "done" /\ IsLatin1(op.message)
   /\ op.outcome \notin {"read-failed", "load-failed", "no-context"})
    => IF EnvelopeBits(op.message) <= CapacityOf(op.file)
       THEN op.outcome = "encoded" /\ encodedImageResult # None
            /\ error = None
       ELSE op.outcome = "capacity" /\ encodedImageResult = None
            /\ ErrorIs("Message too long for this image.")

\* a picture filled exactly was downloaded, and now an envelope one bit
\* longer than the picture's capacity was refused
C4_Witness ==
  /\ downloaded # None
  /\ EnvelopeBits(downloaded[1].hidden[1]) = CapacityOf(downloaded[1])
  /\ EncodeRan /\ op.outcome = "capacity"
  /\ EnvelopeBits(op.message) = CapacityOf(op.file) + 1

\* C5: a picture with at least 32 embeddable channels whose 32 header bits
\* are all 0 is refused with the invalid-length error and gives no message.
C5_ZeroHeader ==
  (DecodeRan /\ CapacityOf(op.file) >= BITS_FOR_LENGTH
   /\ \A k \in 0..(BITS_FOR_LENGTH - 1) : ChannelBit(op.file.data, k) = 0)
    => (op.outcome = "length" /\ decodedMessage = None
        /\ ErrorIs("Invalid message length found."))

C5_Witness ==
  /\ DecodeRan /\ op.file = Black16
  /\ op.outcome = "length" /\ decodedMessage = None

\* C6: a header value greater than width*height*3 - 32 always ends the
\* decode with the invalid-length error.
C6_LengthUpperBound ==
  (DecodeRan /\ CapacityOf(op.file) >= BITS_FOR_LENGTH
   /\ HeaderValue(op.file.data) > CapacityOf(op.file) - BITS_FOR_LENGTH)
    => (op.outcome = "length" /\ ErrorIs("Invalid message length found."))

\* C7: a picture with fewer than 32 embeddable channels is refused with
\* the could-not-read-message-length error and gives no message.
C7_TruncatedHeader ==
  (DecodeRan /\ CapacityOf(op.file) < BITS_FOR_LENGTH)
    => (op.outcome = "header" /\ decodedMessage = None
        /\ ErrorIs("Could not read message length."))

C7_Witness ==
  /\ DecodeRan /\ op.file = Strip10
  /\ op.outcome = "header" /\ ErrorIs("Could not read message length.")

\* C8: when the envelope does not fit, the canvas still holds the source
\* pixels, there is no encoded result, the error is set and shown, and
\* isLoading is false again.
C8_CheckBeforeMutation ==
  (op.kind = "encode" /\ op.stage = "done" /\ op.outcome = "capacity")
    => /\ canvas[1].data = op.file.data
       /\ encodedImageResult = None
       /\ ErrorIs("Message too long for this image.")
       /\ toast = "Message too long for this image."
       /\ ~isLoading

\* the refused envelope would have changed the first channel
C8_Witness ==
  /\ op.kind = "encode" /\ op.stage = "done" /\ op.outcome = "capacity"
  /\ canvas[1].data = op.file.data
  /\ op.file.data[1] % 2 = 1

\* C9: once the callbacks of an encode of a message with a code unit above
\* 255 have fired, the encode has ended with a picture that decodes to
\* that message or with a reported error.
C9_NonLatin1NotSilent ==
  (op.kind = "encode" /\ ~IsLatin1(op.message)
   /\ op.stage \in {"done", "threw"})
    => /\ ~isLoading
       /\ \/ error # None
          \/ toast \in {"Failed to read file.",
                        "Could not load image for encoding.",
                        "Could not get canvas context.",
                        "Message too long for this image."}
          \/ /\ encodedImageResult # None
             /\ LET data == encodedImageResult[1].dataUrl.data
                IN  binaryToText(PayloadLoop(data, ParseInt2(HeaderLoop(data))))
                      = op.message

\* C10: a decode whose header gives a payload bit count that is not a
\* multiple of 8 produces no decoded message.
C10_Misaligned ==
  (DecodeRan /\ CapacityOf(op.file) >= BITS_FOR_LENGTH
   /\ HeaderValue(op.file.data) % 8 # 0)
    => (op.outcome # "decoded" /\ decodedMessage = None)


\* C13: for a picture with at least 32 embeddable channels, a message of
\* n single-byte characters passes the capacity test of handleEncode
\* exactly when n is at most calculateCapacity(width, height).
C13_CapacityIsMaximum ==
  (EncodeRan /\ CapacityOf(op.file) >= BITS_FOR_LENGTH)
    => (op.outcome = "encoded"
          <=> Len(op.message) <= calculateCapacity(op.file.width, op.file.height))

\* a message of exactly the capacity was embedded and downloaded, and now
\* a message one character longer than the capacity was refused
C13_Witness ==
  /\ downloaded # None
  /\ Len(downloaded[1].hidden[1])
       = calculateCapacity(downloaded[1].width, downloaded[1].height)
  /\ EncodeRan /\ op.outcome = "capacity"
  /\ CapacityOf(op.file) >= BITS_FOR_LENGTH
  /\ Len(op.message) = calculateCapacity(op.file.width, op.file.height) + 1

C16_TinyAlwaysRefused ==
  (op.kind = "encode" /\ op.stage \in {"done", "threw"}
   /\ op.file.width = 2 /\ op.file.height = 2
   /\ op.outcome # "no-context")
    => (op.outcome = "capacity"
        /\ ErrorIs("Message too long for this image."))

\* bit k (from 0, most significant first) of the 32-bit big-endian binary
\* of n, for n below 2^31
HeaderBit(n, k) == IF k = 0 THEN 0 ELSE (n \div (2 ^ (31 - k))) % 2

\* bit b (from 0, most significant first) of the 8-bit binary of code c
CharBit(c, b) == (c \div (2 ^ (7 - b))) % 2

C19_EmbeddingOrder ==
  (EncodeRan /\ op.outcome = "encoded") =>
    LET envelope == fullBinaryPayload(textToBinary(op.message).bits)
    IN  \A k \in 0..(Len(envelope) - 1) :
          encodedImageResult[1].dataUrl.data[ChannelIndex(k) + 1] % 2
            = envelope[k + 1]

C19_Witness ==
  /\ EncodeRan /\ op.outcome = "encoded"
  /\ EnvelopeBits(op.message) = CapacityOf(op.file)
  /\ \E k \in 0..(CapacityOf(op.file) - 1) :
       ChannelBit(encodedImageResult[1].dataUrl.data, k)
         # ChannelBit(op.file.data, k)

\* C20: every R, G, B channel whose embeddable index is at or beyond the
\* envelope length has the same value after the encode as before.
C20_RestUntouched ==
  (EncodeRan /\ op.outcome = "encoded") =>
    \A k \in EnvelopeBits(op.message)..(CapacityOf(op.file) - 1) :
      encodedImageResult[1].dataUrl.data[ChannelIndex(k) + 1]
        = op.file.data[ChannelIndex(k) + 1]

\* channels are left over, and one of them has its lowest bit set
C20_Witness ==
  /\ EncodeRan /\ op.outcome = "encoded"
  /\ EnvelopeBits(op.message) < CapacityOf(op.file)
  /\ \E k \in EnvelopeBits(op.message)..(CapacityOf(op.file) - 1) :
       /\ op.file.data[ChannelIndex(k) + 1] % 2 = 1
       /\ encodedImageResult[1].dataUrl.data[ChannelIndex(k) + 1]
            = op.file.data[ChannelIndex(k) + 1]


\* C15: "hi" goes into the 10x10 picture of 128s as a 48-bit envelope
\* (header 16, channels from 48 on untouched), and the decode of the
\* downloaded result gives exactly "hi".
C15_HiScenario ==
  /\ (op.kind = "encode" /\ op.stage = "done" /\ op.outcome # "no-context"
      /\ op.file = Grey100 /\ op.message = <<104, 105>>)
       => /\ op.outcome = "encoded"
          /\ HeaderValue(encodedImageResult[1].dataUrl.data) = 16
          /\ \A k \in 48..299 :
               encodedImageResult[1].dataUrl.data[ChannelIndex(k) + 1] = 128
  /\ (DecodeRan /\ op.file.origin = Some(Grey100.data)
      /\ op.file.hidden = Some(<<104, 105>>))
       => (decodedMessage = Some(<<104, 105>>) /\ error = None)

C15_Witness ==
  /\ DecodeRan /\ op.file.origin = Some(Grey100.data)
  /\ op.file.hidden = Some(<<104, 105>>)
  /\ op.file.width = 10 /\ op.file.height = 10
  /\ decodedMessage = Some(<<104, 105>>)


\* C11: for a picture with at least 32 embeddable channels the capacity
\* that calculateCapacity gave is the floor of (3*w*h - 32) / 8: the
\* largest c with 8*c <= 3*w*h - 32.
C11_CapacityFloor ==
  LET bits == form.capacityImage[1] * form.capacityImage[2] * 3
  IN  (form.imageCapacity # None /\ bits >= BITS_FOR_LENGTH)
        => /\ 8 * form.imageCapacity[1] <= bits - BITS_FOR_LENGTH
           /\ bits - BITS_FOR_LENGTH < 8 * form.imageCapacity[1] + 8

C11_Witness ==
  /\ form.imageCapacity = Some(1)
  /\ form.capacityImage = <<7, 2>>

\* C12: for a picture with fewer than 32 embeddable channels the capacity
\* that calculateCapacity gave is 0, never a negative number.
C12_SmallIsZero ==
  LET bits == form.capacityImage[1] * form.capacityImage[2] * 3
  IN  (form.imageCapacity # None /\ bits < BITS_FOR_LENGTH)
        => form.imageCapacity[1] = 0


\* C21: header and payload are one contiguous bit sequence: a decode that
\* delivers a message delivers the text of the bits of the embeddable
\* channels 32, 33, ... 32 + messageLength - 1, in this order, as a cursor
\* that goes on right after the header would collect them.
C21_ContiguousCursor ==
  (DecodeRan /\ op.outcome = "decoded")
    => LET messageLength == HeaderValue(op.file.data)
           contiguous    == [k \in 1..messageLength |->
                               ChannelBit(op.file.data,
                                          BITS_FOR_LENGTH + k - 1)]
       IN  /\ BITS_FOR_LENGTH + messageLength <= CapacityOf(op.file)
           /\ decodedMessage = Some(binaryToText(contiguous))

C21_Witness ==
  /\ DecodeRan /\ op.outcome = "decoded"
  /\ HeaderValue(op.file.data) = 16
  /\ Len(decodedMessage[1]) = 2
  /\ decodedMessage[1][1] # decodedMessage[1][2]
  /\ ChannelBit(op.file.data, 31) # ChannelBit(op.file.data, 32)

\* C22: no partial message: when the header is readable and its length
\* passes the validation but the picture has fewer than that many
\* embeddable channels after the header, the decode ends with the
\* truncated-payload error and decodedMessage stays null; and whenever the
\* header claims more bits than the picture holds after it, no message is
\* delivered.
C22_NoPartialMessage ==
  (DecodeRan /\ CapacityOf(op.file) >= BITS_FOR_LENGTH
   /\ HeaderValue(op.file.data) > CapacityOf(op.file) - BITS_FOR_LENGTH)
    => /\ decodedMessage = None
       /\ error # None
       /\ ~InvalidLength(HeaderValue(op.file.data), op.file.width,
                         op.file.height)
            => /\ op.outcome = "payload"
               /\ ErrorIs("Failed to extract the complete message.")

C22_Witness ==
  /\ DecodeRan /\ op.outcome = "payload"
  /\ CapacityOf(op.file) = 48
  /\ HeaderValue(op.file.data) = 24
  /\ decodedMessage = None
  /\ ErrorIs("Failed to extract the complete message.")


C24_EveryOperationCompletes == isLoading ~> ~isLoading


\* the destructive toasts that report the failure of a decode
DecodeErrorToasts ==
  {"Failed to read file.", "Could not load image for decoding.",
   "Could not get canvas context.",
   "Decoding Error: could not read message length",
   "Decoding Error: invalid message length", "Decoding Incomplete"}

\* C25: in every page state error is null whenever decodedMessage or
\* encodedImageResult is set, and a decode that has ended has either
\* delivered a message or reported an error, never both and never neither.
C25_ExclusiveOutcomes ==
  /\ error # None => (decodedMessage = None /\ encodedImageResult = None)
  /\ (op.kind = "decode" /\ op.stage = "done")
       => (decodedMessage # None)
            # (error # None \/ toast \in DecodeErrorToasts)

C25_Witness ==
  /\ op.kind = "decode" /\ op.stage = "done"
  /\ op.outcome = "decoded"
  /\ decodedMessage # None /\ error = None
  /\ toast = "Decoding Complete"
  /\ downloaded = None


\* C26: at most one encode or decode is in flight, isLoading is true
\* whenever one is, and an operation whose callbacks are still due is in
\* flight.
C26_OneInFlight ==
  /\ op.inFlight <= 1
  /\ op.inFlight > 0 => isLoading
  /\ op.stage \in {"reading", "loading", "threw"} => op.inFlight = 1
  /\ op.stage \in {"idle", "done"} => (op.inFlight = 0 /\ ~isLoading)

C26_Witness ==
  /\ op.kind = "decode" /\ op.stage = "loading"
  /\ op.inFlight = 1 /\ isLoading
  /\ downloaded # None


\* C27: every step in which the encode form calls onEncode starts from a
\* form with a selected file and a message that is not blank, has at most
\* MAX_MESSAGE_LENGTH characters and, when imageCapacity is known, at most
\* imageCapacity characters; onEncode gets that file and that message.
C27_OnEncodeGuard ==
  [][(op' # op /\ op'.kind = "encode" /\ op'.stage = "reading")
       => /\ form.selectedFile = Some(op'.file)
          /\ op'.message = form.message
          /\ ~IsBlank(form.message)
          /\ Len(form.message) <= MAX_MESSAGE_LENGTH
          /\ form.imageCapacity # None
               => Len(form.message) <= form.imageCapacity[1]]_vars

C27_Witness ==
  /\ op.kind = "encode" /\ op.stage = "reading"
  /\ form.selectedFile = Some(op.file)
  /\ form.message = op.message
  /\ form.imageCapacity = Some(2)
  /\ Len(op.message) = 2


\* C28: whatever the order of the form's img.onload, the message edits and
\* the encode click, a message whose envelope is longer than
\* width*height*3 bits leaves the canvas with the picture's own pixels and
\* yields no encoded image result.
C28_NeverOverCapacity ==
  (op.kind = "encode"
   /\ EnvelopeBits(op.message) > CapacityOf(op.file))
    => /\ encodedImageResult = None
       /\ op.outcome # "encoded"
       /\ (canvas # None /\ op.outcome # "no-context")
            => canvas[1].data = op.file.data

C28_Witness ==
  /\ op.kind = "encode" /\ op.outcome = "capacity"
  /\ op.file = Photo14 /\ Len(op.message) = 2
  /\ form.selectedFile = Some(Photo14)
  /\ form.imageCapacity = None
  /\ form.pending # {}
  /\ encodedImageResult = None
  /\ canvas[1].data = Photo14.data


\* C29: in the decode form with a file and a URL, selectedFile is null
\* whenever imageUrlInput is not empty.
C29_SourcesExclusive ==
  ~(urlForm.selectedFile # None /\ urlForm.imageUrlInput # "")

====
